---- MODULE Spec2Model ----
(***************************************************************************)
(* libconveyor: the buffered I/O engine (conveyor_create, conveyor_write,   *)
(* conveyor_read, conveyor_lseek, conveyor_flush, conveyor_destroy, the     *)
(* write worker and the read worker) over a backing store reached through   *)
(* the three storage callbacks write / read / lseek.                        *)
(*                                                                          *)
(* Threads: the application threads (Clients), the write worker ("ww") and  *)
(* the read worker ("rw").  A critical section under one mutex is one       *)
(* step; a backing-store call made with the mutex released is its own step, *)
(* and a condition-variable wait is two steps (the predicate is found false *)
(* with the mutex held, then the thread releases the mutex and sleeps), so  *)
(* that a flag stored without the mutex can fall between them.              *)
(***************************************************************************)
EXTENDS Integers, Sequences, FiniteSets, TLC

\* ---------------------------------------------------------------- bounds
WriteCap == 2         \* write_buffer_size passed to conveyor_create
ReadCap == 2          \* read_buffer_size passed to conveyor_create
InitStoreLen == 2     \* bytes on the backing store before conveyor_create
MaxOps == 3           \* client calls before conveyor_destroy
MaxOpsMT == 2         \* the same, for an engine shared by two threads
MaxWriteLen == 2      \* largest count passed to conveyor_write
MaxReadLen == 2       \* largest count passed to conveyor_read
MaxSeek == 1          \* largest offset passed to conveyor_lseek
SmallCap == 1         \* ring size of the engines with small rings
GrowMax == 4          \* largest capacity of the rings that may grow
MaxFail == 1          \* backing-store write failures injected
MaxFailObs == 2       \* the same, where the observability calls are made
MaxReadFail == 1      \* backing-store reads that fail
MaxRingLen == 3       \* longest input and largest count of a ring call
RingBytes == {1, 2}   \* byte values written to a ring on its own
MaxShortWrite == 1    \* backing-store writes that return a short count

\* ------------------------------------------------------------- constants
LIBCONVEYOR_ERROR == -1
EBADF == 9
EIO == 5
EMSGSIZE == 90
ETIMEDOUT == 110

Clients == {"c1", "c2"}
Threads == Clients \cup {"ww", "rw"}

Min(a, b) == IF a < b THEN a ELSE b
Max(a, b) == IF a > b THEN a ELSE b
Rest(s, n) == SubSeq(s, n + 1, Len(s))

\* -------------------------------------------------------------- RingBuffer
\* RingBuffer(cap): capacity(cap), buffer(cap) zero-filled, head = tail = size = 0
RingBuffer(cap) ==
    [capacity |-> cap, head |-> 0, tail |-> 0, size |-> 0,
     buffer |-> [i \in 0..(cap - 1) |-> 0]]

available_space(rb) == rb.capacity - rb.size
available_data(rb) == rb.size
empty(rb) == rb.size = 0

\* an append that takes every byte and, where they do not fit, overwrites
\* the oldest bytes held, advancing tail
RingWrite_overwriting(rb, data) ==
    LET held == [j \in 1..rb.size |-> rb.buffer[(rb.tail + j - 1) % rb.capacity]]
        all == held \o data
        kept == Min(rb.capacity, Len(all))
        dropped == Len(all) - kept
        new_tail == (rb.tail + dropped) % rb.capacity
    IN  IF rb.capacity = 0 \/ Len(data) = 0
        THEN [rb |-> rb, n |-> 0]
        ELSE [rb |-> [rb EXCEPT
                 !.buffer = [i \in DOMAIN rb.buffer |->
                     IF (i - new_tail) % rb.capacity < kept
                     THEN all[dropped + ((i - new_tail) % rb.capacity) + 1]
                     ELSE rb.buffer[i]],
                 !.tail = new_tail,
                 !.head = (new_tail + kept) % rb.capacity,
                 !.size = kept],
              n |-> Len(data)]

\* RingBuffer::write(data, len): the new ring and the number of bytes appended
RingWrite(rb, data) ==
    LET bytes_to_write == Min(Len(data), rb.capacity - rb.size)
        first_chunk_len == Min(bytes_to_write, rb.capacity - rb.head)
    IN  IF bytes_to_write = 0
        THEN [rb |-> rb, n |-> 0]
        ELSE [rb |-> [rb EXCEPT
                 !.buffer = [i \in DOMAIN rb.buffer |->
                     IF i >= rb.head /\ i < rb.head + first_chunk_len
                     THEN data[i - rb.head + 1]
                     ELSE IF i < bytes_to_write - first_chunk_len
                          THEN data[first_chunk_len + i + 1]
                          ELSE rb.buffer[i]],
                 !.head = (rb.head + bytes_to_write) % rb.capacity,
                 !.size = rb.size + bytes_to_write],
              n |-> bytes_to_write]

\* a read that copies the bytes out and leaves them in the ring
RingRead_kept(rb, len) ==
    [rb |-> rb,
     out |-> [j \in 1..Min(len, rb.size) |->
                 rb.buffer[(rb.tail + j - 1) % rb.capacity]]]

\* a read whose tail runs past the end of the storage instead of wrapping
RingRead_unwrapped(rb, len) ==
    LET bytes_to_read == Min(len, rb.size)
    IN  [rb |-> [rb EXCEPT !.tail = rb.tail + bytes_to_read,
                           !.size = rb.size - bytes_to_read],
         out |-> [j \in 1..bytes_to_read |->
                     rb.buffer[(rb.tail + j - 1) % rb.capacity]]]

\* RingBuffer::read(data, len): the new ring and the bytes consumed
RingRead(rb, len) ==
    LET bytes_to_read == Min(len, rb.size)
        first_chunk_len == Min(bytes_to_read, rb.capacity - rb.tail)
    IN  IF bytes_to_read = 0
        THEN [rb |-> rb, out |-> << >>]
        ELSE [rb |-> [rb EXCEPT
                 !.tail = (rb.tail + bytes_to_read) % rb.capacity,
                 !.size = rb.size - bytes_to_read],
              out |-> [j \in 1..bytes_to_read |->
                 IF j <= first_chunk_len
                 THEN rb.buffer[rb.tail + j - 1]
                 ELSE rb.buffer[j - first_chunk_len - 1]]]

\* peek_at: len bytes from the absolute ring position on, wrapping; the
\* ring is left as it is
peek_at(rb, absolute_ring_pos, len) ==
    LET offset == absolute_ring_pos % rb.capacity
        first_chunk == Min(len, rb.capacity - offset)
    IN  [j \in 1..len |->
            IF j <= first_chunk THEN rb.buffer[offset + j - 1]
            ELSE rb.buffer[j - first_chunk - 1]]

\* RingBuffer::clear()
RingClear(rb) == [rb EXCEPT !.head = 0, !.tail = 0, !.size = 0]

\* the unrolling that copies one chunk whether or not the bytes wrap
resize_one_chunk(rb, new_capacity) ==
    [rb EXCEPT
        !.buffer = [i \in 0..(new_capacity - 1) |->
            IF i < rb.size /\ rb.tail + i < rb.capacity
            THEN rb.buffer[rb.tail + i] ELSE 0],
        !.capacity = new_capacity, !.head = rb.size, !.tail = 0]

\* RingBuffer::resize(new_capacity): growing only; the bytes held are
\* unrolled to the start of a new zero-filled buffer, in one chunk when
\* head > tail, else the chunk up to the end followed by the head bytes
\* at the start
\* a resize that moves the bytes and keeps the old head and tail
resize_indices_kept(rb, new_capacity) ==
    IF new_capacity <= rb.capacity THEN rb
    ELSE [rb EXCEPT
             !.buffer = [i \in 0..(new_capacity - 1) |->
                 IF i < rb.size THEN rb.buffer[(rb.tail + i) % rb.capacity]
                 ELSE 0],
             !.capacity = new_capacity]

resize(rb, new_capacity) ==
    IF new_capacity <= rb.capacity THEN rb
    ELSE LET first_chunk == rb.capacity - rb.tail
         IN  [rb EXCEPT
                 !.buffer = [i \in 0..(new_capacity - 1) |->
                     IF rb.size = 0 THEN 0
                     ELSE IF rb.head > rb.tail
                     THEN (IF i < rb.size THEN rb.buffer[rb.tail + i] ELSE 0)
                     ELSE IF i < first_chunk THEN rb.buffer[rb.tail + i]
                     ELSE IF i < first_chunk + rb.head
                          THEN rb.buffer[i - first_chunk] ELSE 0],
                 !.capacity = new_capacity, !.head = rb.size, !.tail = 0]

\* a ring of capacity initial_size that may grow up to max_size
GrowableRing(initial_size, max_size) ==
    RingBuffer(initial_size) @@ [max_capacity |-> Max(initial_size, max_size)]

\* the capacity a full ring grows to for a request with remaining bytes
\* left: the larger of what the request needs and the double, capped at
\* the maximum
grown_capacity_uncapped(rb, remaining) ==
    Max(rb.capacity + remaining, 2 * rb.capacity)

grown_capacity(rb, remaining) ==
    Min(rb.max_capacity, Max(rb.capacity + remaining, 2 * rb.capacity))

\* the write path's copy into the ring: what fits is appended, and a ring
\* that is full with bytes still to take grows if it is below its maximum
\* and takes what then fits (one growth reaches the need or the maximum);
\* the new ring, the number of bytes appended, and for every copy made the
\* index it started at (the head before it) and its length
RingWriteGrowing(rb, data) ==
    LET w == RingWrite(rb, data)
        left == Len(data) - w.n
        grown == resize(w.rb, grown_capacity(w.rb, left))
        g == RingWrite(grown, Rest(data, w.n))
        first == IF w.n > 0 THEN <<[start |-> rb.head, length |-> w.n]>> ELSE << >>
        second == IF g.n > 0 THEN <<[start |-> grown.head, length |-> g.n]>>
                  ELSE << >>
    IN  IF left > 0 /\ w.rb.capacity < w.rb.max_capacity
        THEN [rb |-> g.rb, n |-> w.n + g.n, chunks |-> first \o second]
        ELSE [rb |-> w.rb, n |-> w.n, chunks |-> first]

\* the write requests enqueued for the copies of one pass that started at
\* logical offset offset: {target offset, ring region start, length}
WriteRequests(offset, chunks) ==
    [k \in 1..Len(chunks) |->
        [offset |-> offset + (IF k = 1 THEN 0 ELSE chunks[1].length),
         start |-> chunks[k].start,
         length |-> chunks[k].length]]

\* ------------------------------------------- statistics and sticky error
\* the counters of a new engine and after a get_stats
StatsZero == [bytes_written |-> 0]

\* the write worker's update after a backing-store write of n bytes
StatsAdd(st, n) == [st EXCEPT !.bytes_written = @ + n]

\* a get_stats that copies the counters out and leaves them as they are
StatsReset_kept(st) == st

\* get_stats: the counters after they were copied out
StatsReset(st) == StatsZero

\* a counter bumped only by a seek that moves the logical offset
GenerationAfterSeek_moved(g, old_pos, new_pos) ==
    IF new_pos = old_pos THEN g ELSE g + 1

\* the generation counter after a successful lseek from old_pos to new_pos
GenerationAfterSeek(g, old_pos, new_pos) == g + 1

\* the error codes a failing backing-store write reports
StoreErrors == {EIO, ETIMEDOUT}

\* a slot that takes every code reported
StickySet_latest(slot, code) == code

\* a worker records a backing-store failure: the slot keeps a code it
\* already holds
StickySet(slot, code) == IF slot = 0 THEN code ELSE slot

\* ----------------------------------------------------------- backing store
\* The store behind the callbacks: a byte vector and a file position.
\* data[p + 1] is the byte at file offset p.
StoreInit == [j \in 1..InitStoreLen |-> 100 + j]

\* ops.write(handle, buf, count): writes at the file position, zero-filling a gap
StoreWrite(st, buf) ==
    LET newLen == Max(Len(st.data), st.pos + Len(buf))
    IN  [st EXCEPT
           !.data = [j \in 1..newLen |->
               IF j > st.pos /\ j <= st.pos + Len(buf) THEN buf[j - st.pos]
               ELSE IF j <= Len(st.data) THEN st.data[j] ELSE 0],
           !.pos = st.pos + Len(buf)]

\* ops.read(handle, buf, count): the bytes read at the file position
StoreReadBytes(st, count) ==
    LET n == IF st.pos < Len(st.data) THEN Min(count, Len(st.data) - st.pos) ELSE 0
    IN  [j \in 1..n |-> st.data[st.pos + j]]

\* ops.lseek(handle, offset, whence): the new position, or -1
StoreSeekPos(st, offset, whence) ==
    LET new_pos == IF whence = "SEEK_SET" THEN offset
                   ELSE IF whence = "SEEK_CUR" THEN st.pos + offset
                   ELSE Len(st.data) + offset
    IN  IF new_pos >= 0 THEN new_pos ELSE LIBCONVEYOR_ERROR

\* what ops.lseek returns when the backing store fails the call: -1, as
\* mock_lseek does, or another negative value, as MockStorage's
\* lseek_callback does (a negative position returned as it is)
LseekErrors == {LIBCONVEYOR_ERROR, 0 - 2}

StoreLseek_unmoved(st, offset, whence) == st

StoreLseek(st, offset, whence) ==
    LET new_pos == StoreSeekPos(st, offset, whence)
    IN  IF new_pos >= 0 THEN [st EXCEPT !.pos = new_pos] ELSE st

\* ------------------------------------------------------------------ state
VARIABLES
    flags,                     \* [acc, append]: the open flags given to conveyor_create
    write_buffer,              \* ConveyorImpl::write_buffer
    write_mutex,               \* owner of write_mutex, or "free"
    write_worker_stop_flag,
    write_buffer_needs_flush,
    current_pos_in_storage,
    read_buffer,               \* ConveyorImpl::read_buffer
    read_mutex,                \* owner of read_mutex, or "free"
    read_worker_stop_flag,
    read_buffer_stale,
    read_worker_needs_fill,
    read_eof_flag,
    current_file_offset,
    pc,                        \* position of every thread
    asleep,                    \* thread is blocked in condition_variable::wait
    temp_flush_buffer,         \* writeWorker local
    written_to_storage,        \* writeWorker local
    bytes_to_read_from_storage,\* readWorker local
    temp_read_buffer,          \* readWorker local: the bytes ops.read returned
    bytes_read_from_ops,       \* readWorker local: what ops.read returned
    cur,                       \* per client: the call in progress
    errno,                     \* per client: thread-local errno
    generation,                \* the generation counter
    last_error,                \* the sticky error slot, 0 when no error is recorded
    stats,                     \* [bytes_written]: the counters since the last get_stats
    write_queue,               \* the write requests in flight, oldest first
    store,                     \* [data, pos]: the backing store
    failsLeft,                 \* backing-store failures still to inject
    hist,                      \* completed client calls, in order of return
    acceptedLog,               \* <<offset, byte>> of every byte conveyor_write accepted
    deliveredLog,              \* bytes of every ops.write call that returned a count
    staleInFlight,             \* conveyor_lseek moved the position after ops.read returned bytes
                               \* and before readWorker re-took read_mutex
    writeFailed                \* an ops.write of the write worker returned an error

engineVars == <<write_buffer, write_mutex, write_worker_stop_flag,
                write_buffer_needs_flush, current_pos_in_storage, read_buffer,
                read_mutex, read_worker_stop_flag, read_buffer_stale,
                read_worker_needs_fill, read_eof_flag, current_file_offset>>
workerVars == <<temp_flush_buffer, written_to_storage,
                bytes_to_read_from_storage, temp_read_buffer,
                bytes_read_from_ops>>
obsVars == <<generation, last_error, stats, write_queue>>
ghostVars == <<hist, acceptedLog, deliveredLog, staleInFlight, writeFailed>>
vars == <<flags, engineVars, obsVars, pc, asleep, workerVars, cur, errno, store,
          failsLeft, ghostVars>>

\* conveyor_create: the access mode decides which directions are enabled
Modes == {[acc |-> "O_RDONLY", append |-> FALSE],
          [acc |-> "O_WRONLY", append |-> FALSE],
          [acc |-> "O_WRONLY", append |-> TRUE]}
ModesRW == {[acc |-> "O_RDWR", append |-> FALSE]}

read_buffer_enabled == flags.acc \in {"O_RDONLY", "O_RDWR"}
write_buffer_enabled_always == TRUE
write_buffer_enabled == flags.acc \in {"O_WRONLY", "O_RDWR"}

NoCall == [op |-> "none", src |-> << >>, data |-> << >>, remaining |-> 0,
           total |-> 0, off |-> 0, len |-> 0, failedBefore |-> FALSE,
           fillFailed |-> 0, drainFailed |-> 0, loaded |-> 0]

\* the state conveyor_create returns, for open flags in modes, nfail
\* backing-store write failures to come, and the application threads in
\* active sharing the engine (the others never call it); wcap and rcap are
\* write_buffer_size and read_buffer_size, wmax and rmax the sizes the
\* rings may grow to, data the bytes the backing store holds
CreateOn(modes, nfail, active, wcap, rcap, wmax, rmax, st) ==
    /\ flags \in modes
    /\ write_buffer = GrowableRing(wcap, wmax)
    /\ read_buffer = GrowableRing(rcap, rmax)
    /\ write_mutex = "free"
    /\ read_mutex = "free"
    /\ write_worker_stop_flag = FALSE
    /\ write_buffer_needs_flush = FALSE
    /\ current_pos_in_storage = 0
    /\ read_worker_stop_flag = FALSE
    /\ read_buffer_stale = FALSE
    /\ read_worker_needs_fill = FALSE
    /\ read_eof_flag = FALSE
    /\ current_file_offset = 0
    /\ generation = 0
    /\ last_error = 0
    /\ stats = StatsZero
    /\ write_queue = << >>
    /\ pc = [t \in Threads |->
               IF t = "ww" THEN (IF write_buffer_enabled THEN "ww_lock" ELSE "off")
               ELSE IF t = "rw" THEN (IF read_buffer_enabled THEN "rw_lock" ELSE "off")
               ELSE IF t \in active THEN "idle" ELSE "off"]
    /\ asleep = [t \in Threads |-> FALSE]
    /\ temp_flush_buffer = << >>
    /\ written_to_storage = 0
    /\ bytes_to_read_from_storage = 0
    /\ temp_read_buffer = << >>
    /\ bytes_read_from_ops = 0
    /\ cur = [c \in Clients |-> NoCall]
    /\ errno = [c \in Clients |-> 0]
    /\ store = st
    /\ failsLeft = nfail
    /\ hist = << >>
    /\ acceptedLog = << >>
    /\ deliveredLog = << >>
    /\ staleInFlight = FALSE
    /\ writeFailed = FALSE

\* a backing store holding data that fails no read and shortens no write
StoreOf(data) == [data |-> data, pos |-> 0, read_fails |-> 0, short_writes |-> 0]

\* the same over a backing store that works as the mock stores do
CreateWith(modes, nfail, active, wcap, rcap, wmax, rmax, data) ==
    CreateOn(modes, nfail, active, wcap, rcap, wmax, rmax, StoreOf(data))

\* the engine with rings of WriteCap and ReadCap bytes
CreateFor(modes, nfail, active) ==
    CreateWith(modes, nfail, active, WriteCap, ReadCap, WriteCap, ReadCap,
               StoreInit)

\* the engine used by one application thread
Create(modes, nfail) == CreateFor(modes, nfail, {"c1"})

\* write-only, append and read-only engines, with write failures
Init == Create(Modes, MaxFail)
\* read-write engines, the backing store never failing
InitRW == Create(ModesRW, 0)
\* read-only and write-only engines shared by two application threads
ModesMT == {[acc |-> "O_RDONLY", append |-> FALSE],
            [acc |-> "O_WRONLY", append |-> FALSE]}
InitMT == CreateFor(ModesMT, 0, Clients)
\* the same two threads on an engine whose rings are smaller than the
\* largest write, so that a writer blocks while the other one writes
InitMTSmall ==
    CreateWith(ModesMT, 0, Clients, SmallCap, SmallCap, SmallCap, SmallCap,
               StoreInit)
\* read-only and write-only engines whose rings are smaller than the
\* largest write and read
InitSmall ==
    CreateWith(ModesMT, 0, {"c1"}, SmallCap, SmallCap, SmallCap, SmallCap,
               StoreInit)
\* read-only and write-only engines whose rings start small and may grow
InitGrow ==
    \E cap \in {SmallCap, WriteCap} :
        CreateWith(ModesMT, 0, {"c1"}, cap, cap, GrowMax, GrowMax, StoreInit)
\* read-write engines over an empty backing store
StoreEmpty == << >>
InitEmpty ==
    CreateWith(ModesRW, 0, {"c1"}, WriteCap, ReadCap, WriteCap, ReadCap,
               StoreEmpty)

\* the engines of Init, and the same with write_buffer_size 0
InitUnbuf ==
    \E wcap \in {0, WriteCap} :
        CreateWith(Modes, MaxFail, {"c1"}, wcap, ReadCap, wcap, ReadCap,
                   StoreInit)

\* ------------------------------------------------- condition variables
\* the condition variable a thread sleeps on, by its position
WaitsOn(t) ==
    CASE pc[t] = "ww_sleep" -> "write_cv_consumer"
      [] pc[t] = "rw_sleep" -> "read_cv_producer"
      [] pc[t] \in {"cw_sleep", "cf_sleep"} -> "write_cv_producer"
      [] pc[t] = "cr_sleep" -> "read_cv_consumer"
      [] OTHER -> "none"

\* notify_one / notify_all on the condition variables in cvs: every thread
\* sleeping on one of them becomes runnable (each cv notified with
\* notify_one has the one worker as its only possible waiter)
Notify(cvs) == [t \in Threads |-> IF WaitsOn(t) \in cvs THEN FALSE ELSE asleep[t]]

\* unique_lock released and the thread blocked in condition_variable::wait
Block(t, next) ==
    /\ asleep' = [asleep EXCEPT ![t] = TRUE]
    /\ pc' = [pc EXCEPT ![t] = next]

\* ------------------------------------------------------ client bookkeeping
\* calls left: two threads sharing an engine make fewer calls in all
OpsLeft ==
    (IF \A c \in Clients : pc[c] # "off" THEN MaxOpsMT ELSE MaxOps) - Len(hist)
EngineAlive == \A c \in Clients : cur[c].op # "destroy"
CanCall(c) == pc[c] = "idle" /\ EngineAlive /\ OpsLeft > 0

Call(op, len) ==
    [op |-> op, src |-> << >>, data |-> << >>, remaining |-> len, total |-> 0,
     off |-> current_file_offset, len |-> len, failedBefore |-> writeFailed,
     fillFailed |-> 0, drainFailed |-> 0, loaded |-> 0]

Entry(c, call, ret, err, data) ==
    [who |-> c, op |-> call.op, off |-> call.off, len |-> call.len,
     data |-> data, ret |-> ret, err |-> err,
     failedBefore |-> call.failedBefore, fillFailed |-> call.fillFailed,
     drainFailed |-> call.drainFailed]

\* the call returns ret to the client; errno is stored only on failure
Return(c, call, ret, err, data) ==
    /\ hist' = Append(hist, Entry(c, call, ret, err, data))
    /\ cur' = [cur EXCEPT ![c] = NoCall]
    /\ errno' = [errno EXCEPT ![c] = IF ret = LIBCONVEYOR_ERROR THEN err ELSE @]
    /\ pc' = [pc EXCEPT ![c] = "idle"]

\* the bytes a client passes to its next conveyor_write: the values after
\* those already accepted, so that every accepted byte can be told apart
SrcBytes(len) == [j \in 1..len |-> Len(acceptedLog) + j]


\* the same pass with the logical offset left where it was
WritePass_offset_kept(c, call) ==
    LET w == RingWriteGrowing(write_buffer, call.data)
        left == call.remaining - w.n
    IN  IF call.remaining = 0 \/ write_worker_stop_flag
        THEN /\ cur' = [cur EXCEPT ![c] = call]
             /\ pc' = [pc EXCEPT ![c] = "cw_inval"]
             /\ UNCHANGED <<write_buffer, write_mutex, current_file_offset,
                            acceptedLog, asleep, write_queue>>
        ELSE IF w.n = 0
        THEN /\ cur' = [cur EXCEPT ![c] = call]
             /\ write_mutex' = c
             /\ pc' = [pc EXCEPT ![c] = "cw_block"]
             /\ UNCHANGED <<write_buffer, current_file_offset, acceptedLog, asleep,
                            write_queue>>
        ELSE /\ write_buffer' = w.rb
             /\ write_queue' = write_queue
                    \o WriteRequests(current_file_offset, w.chunks)
             /\ cur' = [cur EXCEPT ![c] = [call EXCEPT !.data = Rest(call.data, w.n),
                                                       !.remaining = left,
                                                       !.total = call.total + w.n]]
             /\ current_file_offset' = current_file_offset
             /\ acceptedLog' = acceptedLog \o
                    [j \in 1..w.n |-> <<current_file_offset + j - 1, call.data[j]>>]
             /\ asleep' = Notify({"write_cv_consumer"})
             /\ IF left = 0
                THEN /\ pc' = [pc EXCEPT ![c] = "cw_inval"]
                     /\ UNCHANGED write_mutex
                ELSE /\ pc' = [pc EXCEPT ![c] = "cw_block"]
                     /\ write_mutex' = c

\* ------------------------------------------------------- conveyor_write
\* one pass of the loop under write_mutex: what fits is copied into the ring
\* at the current offset and the worker is notified; with bytes left over
\* the ring is full and the caller goes to wait for space
WritePass(c, call) ==
    LET w == RingWriteGrowing(write_buffer, call.data)
        left == call.remaining - w.n
    IN  IF call.remaining = 0 \/ write_worker_stop_flag
        THEN /\ cur' = [cur EXCEPT ![c] = call]
             /\ pc' = [pc EXCEPT ![c] = "cw_inval"]
             /\ UNCHANGED <<write_buffer, write_mutex, current_file_offset,
                            acceptedLog, asleep, write_queue>>
        ELSE IF w.n = 0
        THEN /\ cur' = [cur EXCEPT ![c] = call]
             /\ write_mutex' = c
             /\ pc' = [pc EXCEPT ![c] = "cw_block"]
             /\ UNCHANGED <<write_buffer, current_file_offset, acceptedLog, asleep,
                            write_queue>>
        ELSE /\ write_buffer' = w.rb
             /\ write_queue' = write_queue
                    \o WriteRequests(current_file_offset, w.chunks)
             /\ cur' = [cur EXCEPT ![c] = [call EXCEPT !.data = Rest(call.data, w.n),
                                                       !.remaining = left,
                                                       !.total = call.total + w.n]]
             /\ current_file_offset' = current_file_offset + w.n
             /\ acceptedLog' = acceptedLog \o
                    [j \in 1..w.n |-> <<current_file_offset + j - 1, call.data[j]>>]
             /\ asleep' = Notify({"write_cv_consumer"})
             /\ IF left = 0
                THEN /\ pc' = [pc EXCEPT ![c] = "cw_inval"]
                     /\ UNCHANGED write_mutex
                ELSE /\ pc' = [pc EXCEPT ![c] = "cw_block"]
                     /\ write_mutex' = c

\* the call: EBADF unless the write direction is enabled, else the first pass
conveyor_write(c) ==
    /\ CanCall(c)
    /\ \E len \in 0..MaxWriteLen :
          LET call == [Call("write", len) EXCEPT !.src = SrcBytes(len),
                                                 !.data = SrcBytes(len)]
          IN  IF ~write_buffer_enabled
              THEN /\ Return(c, call, LIBCONVEYOR_ERROR, EBADF, << >>)
                   /\ UNCHANGED <<write_buffer, write_mutex, current_file_offset,
                                  acceptedLog, asleep, write_queue>>
              ELSE /\ write_mutex = "free"
                   /\ WritePass(c, call)
                   /\ UNCHANGED <<hist, errno>>
    /\ UNCHANGED <<flags, write_worker_stop_flag, write_buffer_needs_flush,
                   current_pos_in_storage, read_buffer, read_mutex,
                   read_worker_stop_flag, read_buffer_stale, read_worker_needs_fill,
                   read_eof_flag, workerVars, store, failsLeft, deliveredLog,
                   staleInFlight, writeFailed>>
    /\ UNCHANGED <<generation, last_error, stats>>

\* woken from write_cv_producer.wait: the next pass
conveyor_write_loop(c) ==
    /\ pc[c] = "cw_sleep" /\ ~asleep[c]
    /\ write_mutex = "free"
    /\ WritePass(c, cur[c])
    /\ UNCHANGED <<flags, write_worker_stop_flag, write_buffer_needs_flush,
                   current_pos_in_storage, read_buffer, read_mutex,
                   read_worker_stop_flag, read_buffer_stale, read_worker_needs_fill,
                   read_eof_flag, workerVars, errno, store, failsLeft, hist,
                   deliveredLog, staleInFlight, writeFailed>>
    /\ UNCHANGED <<generation, last_error, stats>>

\* write_cv_producer.wait: the predicate was false, the mutex is released
producer_wait(c) ==
    /\ pc[c] \in {"cw_block", "cf_block"}
    /\ write_mutex' = "free"
    /\ Block(c, IF pc[c] = "cw_block" THEN "cw_sleep" ELSE "cf_sleep")
    /\ UNCHANGED <<flags, write_buffer, write_worker_stop_flag,
                   write_buffer_needs_flush, current_pos_in_storage, read_buffer,
                   read_mutex, read_worker_stop_flag, read_buffer_stale,
                   read_worker_needs_fill, read_eof_flag, current_file_offset,
                   workerVars, cur, errno, store, failsLeft, ghostVars>>
    /\ UNCHANGED obsVars

\* after the loop: a read-write engine drops its read cache; the count of
\* bytes copied is returned
conveyor_write_return(c) ==
    /\ pc[c] = "cw_inval"
    /\ IF read_buffer_enabled /\ flags.acc = "O_RDWR"
       THEN /\ read_mutex = "free"
            /\ read_buffer' = RingClear(read_buffer)
            /\ read_buffer_stale' = TRUE
       ELSE UNCHANGED <<read_buffer, read_buffer_stale>>
    /\ Return(c, cur[c], cur[c].total, 0, SubSeq(cur[c].src, 1, cur[c].total))
    /\ UNCHANGED <<flags, write_buffer, write_mutex, write_worker_stop_flag,
                   write_buffer_needs_flush, current_pos_in_storage, read_mutex,
                   read_worker_stop_flag, read_worker_needs_fill, read_eof_flag,
                   current_file_offset, asleep, workerVars, store, failsLeft,
                   acceptedLog, deliveredLog, staleInFlight, writeFailed>>
    /\ UNCHANGED obsVars

\* ------------------------------------------------------- conveyor_flush
\* conveyor_flush returns 0 to its caller: the client, or conveyor_destroy
FlushReturn(c, call) ==
    IF call.op = "destroy"
    THEN /\ pc' = [pc EXCEPT ![c] = IF read_buffer_enabled THEN "d_rstop" ELSE "d_wstop"]
         /\ cur' = [cur EXCEPT ![c] = call]
         /\ UNCHANGED <<hist, errno>>
    ELSE Return(c, call, 0, 0, << >>)

\* under write_mutex: with data in the ring a flush is requested and the
\* caller waits until the ring is empty; then the request is withdrawn
FlushPass(c, call, woke) ==
    LET pending == available_data(write_buffer) > 0
        satisfied == empty(write_buffer) \/ write_worker_stop_flag
    IN  /\ asleep' = IF ~woke /\ pending THEN Notify({"write_cv_consumer"}) ELSE asleep
        /\ IF satisfied
           THEN /\ write_buffer_needs_flush' = FALSE
                /\ FlushReturn(c, call)
                /\ UNCHANGED write_mutex
           ELSE /\ write_buffer_needs_flush' = (IF woke THEN write_buffer_needs_flush
                                                ELSE TRUE)
                /\ write_mutex' = c
                /\ cur' = [cur EXCEPT ![c] = call]
                /\ pc' = [pc EXCEPT ![c] = "cf_block"]
                /\ UNCHANGED <<hist, errno>>

\* the call: a no-op returning 0 when the write direction is disabled
conveyor_flush(c) ==
    /\ CanCall(c)
    /\ IF ~write_buffer_enabled
       THEN /\ Return(c, Call("flush", 0), 0, 0, << >>)
            /\ UNCHANGED <<write_buffer_needs_flush, write_mutex, asleep>>
       ELSE /\ write_mutex = "free"
            /\ FlushPass(c, Call("flush", 0), FALSE)
    /\ UNCHANGED <<flags, write_buffer, write_worker_stop_flag,
                   current_pos_in_storage, read_buffer, read_mutex,
                   read_worker_stop_flag, read_buffer_stale, read_worker_needs_fill,
                   read_eof_flag, current_file_offset, workerVars, store,
                   failsLeft, acceptedLog, deliveredLog, staleInFlight, writeFailed>>
    /\ UNCHANGED obsVars

\* woken from write_cv_producer.wait inside conveyor_flush
conveyor_flush_wait(c) ==
    /\ pc[c] = "cf_sleep" /\ ~asleep[c]
    /\ write_mutex = "free"
    /\ FlushPass(c, cur[c], TRUE)
    /\ UNCHANGED <<flags, write_buffer, write_worker_stop_flag,
                   current_pos_in_storage, read_buffer, read_mutex,
                   read_worker_stop_flag, read_buffer_stale, read_worker_needs_fill,
                   read_eof_flag, current_file_offset, workerVars, store,
                   failsLeft, acceptedLog, deliveredLog, staleInFlight, writeFailed>>
    /\ UNCHANGED obsVars

\* ----------------------------------------------------- conveyor_destroy
\* the call: conveyor_flush first when the write direction is enabled
conveyor_destroy(c) ==
    /\ pc[c] = "idle" /\ EngineAlive
    /\ \A c2 \in Clients : pc[c2] \in {"idle", "off"}
    /\ IF write_buffer_enabled
       THEN /\ write_mutex = "free"
            /\ FlushPass(c, Call("destroy", 0), FALSE)
       ELSE /\ cur' = [cur EXCEPT ![c] = Call("destroy", 0)]
            /\ pc' = [pc EXCEPT ![c] = "d_rstop"]
            /\ UNCHANGED <<write_buffer_needs_flush, write_mutex, asleep, hist, errno>>
    /\ UNCHANGED <<flags, write_buffer, write_worker_stop_flag,
                   current_pos_in_storage, read_buffer, read_mutex,
                   read_worker_stop_flag, read_buffer_stale, read_worker_needs_fill,
                   read_eof_flag, current_file_offset, workerVars, store,
                   failsLeft, acceptedLog, deliveredLog, staleInFlight, writeFailed>>
    /\ UNCHANGED obsVars

\* conveyor_destroy returns: impl deleted
DestroyReturn(c) ==
    /\ hist' = Append(hist, Entry(c, cur[c], 0, 0, << >>))
    /\ pc' = [pc EXCEPT ![c] = "done"]

\* read_worker_stop_flag = true and both read condition variables notified,
\* with no mutex held
destroy_stop_reader(c) ==
    /\ pc[c] = "d_rstop"
    /\ read_worker_stop_flag' = TRUE
    /\ asleep' = Notify({"read_cv_producer", "read_cv_consumer"})
    /\ pc' = [pc EXCEPT ![c] = "d_rjoin"]
    /\ UNCHANGED <<flags, write_buffer, write_mutex, write_worker_stop_flag,
                   write_buffer_needs_flush, current_pos_in_storage, read_buffer,
                   read_mutex, read_buffer_stale, read_worker_needs_fill,
                   read_eof_flag, current_file_offset, workerVars, cur, errno,
                   store, failsLeft, ghostVars>>
    /\ UNCHANGED obsVars

\* read_worker_thread.join()
destroy_join_reader(c) ==
    /\ pc[c] = "d_rjoin"
    /\ pc["rw"] = "done"
    /\ IF write_buffer_enabled
       THEN /\ pc' = [pc EXCEPT ![c] = "d_wstop"]
            /\ UNCHANGED hist
       ELSE DestroyReturn(c)
    /\ UNCHANGED <<flags, engineVars, asleep, workerVars, cur, errno, store,
                   failsLeft, acceptedLog, deliveredLog, staleInFlight, writeFailed>>
    /\ UNCHANGED obsVars

\* write_worker_stop_flag = true and both write condition variables notified,
\* with no mutex held
destroy_stop_writer(c) ==
    /\ pc[c] = "d_wstop"
    /\ write_worker_stop_flag' = TRUE
    /\ asleep' = Notify({"write_cv_producer", "write_cv_consumer"})
    /\ pc' = [pc EXCEPT ![c] = "d_wjoin"]
    /\ UNCHANGED <<flags, write_buffer, write_mutex, write_buffer_needs_flush,
                   current_pos_in_storage, read_buffer, read_mutex,
                   read_worker_stop_flag, read_buffer_stale, read_worker_needs_fill,
                   read_eof_flag, current_file_offset, workerVars, cur, errno,
                   store, failsLeft, ghostVars>>
    /\ UNCHANGED obsVars

\* write_worker_thread.join()
destroy_join_writer(c) ==
    /\ pc[c] = "d_wjoin"
    /\ pc["ww"] = "done"
    /\ DestroyReturn(c)
    /\ UNCHANGED <<flags, engineVars, asleep, workerVars, cur, errno, store,
                   failsLeft, acceptedLog, deliveredLog, staleInFlight, writeFailed>>
    /\ UNCHANGED obsVars

\* -------------------------------------------------------- conveyor_read
\* one pass of the loop under read_mutex: what the ring holds is taken and
\* the offset advanced; with the ring empty and no EOF the worker is asked
\* to fill and the caller waits; woke: this pass follows that wait
ReadPass(c, call, woke) ==
    LET \* woken from read_cv_consumer.wait with the predicate still false
        again == woke /\ ~(available_data(read_buffer) > 0 \/ read_eof_flag
                           \/ read_worker_stop_flag)
        \* the loop is left before anything is taken
        out0 == IF woke THEN available_data(read_buffer) = 0
                ELSE \/ call.remaining = 0
                     \/ read_worker_stop_flag
                     \/ (empty(read_buffer) /\ read_eof_flag)
        r == RingRead(read_buffer, Min(call.remaining, available_data(read_buffer)))
        n == Len(r.out)
        got == call.data \o r.out
        \* the loop is left after n bytes were taken
        out1 == \/ call.remaining - n = 0
                \/ read_worker_stop_flag
                \/ (empty(r.rb) /\ read_eof_flag)
    IN  IF again
        THEN /\ read_mutex' = c
             /\ cur' = [cur EXCEPT ![c] = call]
             /\ pc' = [pc EXCEPT ![c] = "cr_block"]
             /\ UNCHANGED <<read_buffer, read_worker_needs_fill,
                            current_file_offset, asleep, hist, errno>>
        ELSE IF out0
        THEN /\ Return(c, call, call.total, 0, call.data)
             /\ UNCHANGED <<read_buffer, read_mutex, read_worker_needs_fill,
                            current_file_offset, asleep>>
        ELSE IF empty(read_buffer)
        THEN /\ read_worker_needs_fill' = TRUE
             /\ asleep' = Notify({"read_cv_producer"})
             /\ read_mutex' = c
             /\ cur' = [cur EXCEPT ![c] = call]
             /\ pc' = [pc EXCEPT ![c] = "cr_block"]
             /\ UNCHANGED <<read_buffer, current_file_offset, hist, errno>>
        ELSE /\ read_buffer' = r.rb
             /\ current_file_offset' = current_file_offset + n
             /\ asleep' = Notify({"read_cv_producer"})
             /\ IF out1
                THEN /\ Return(c, call, call.total + n, 0, got)
                     /\ UNCHANGED <<read_mutex, read_worker_needs_fill>>
                ELSE /\ read_worker_needs_fill' = TRUE
                     /\ read_mutex' = c
                     /\ cur' = [cur EXCEPT ![c] = [call EXCEPT
                                   !.data = got,
                                   !.remaining = call.remaining - n,
                                   !.total = call.total + n]]
                     /\ pc' = [pc EXCEPT ![c] = "cr_block"]
                     /\ UNCHANGED <<hist, errno>>

\* the call: EBADF unless the read direction is enabled, else the first pass
conveyor_read(c) ==
    /\ CanCall(c)
    /\ \E len \in 0..MaxReadLen :
          IF ~read_buffer_enabled
          THEN /\ Return(c, Call("read", len), LIBCONVEYOR_ERROR, EBADF, << >>)
               /\ UNCHANGED <<read_buffer, read_mutex, read_worker_needs_fill,
                              current_file_offset, asleep>>
          ELSE /\ read_mutex = "free"
               /\ ReadPass(c, Call("read", len), FALSE)
    /\ UNCHANGED <<flags, write_buffer, write_mutex, write_worker_stop_flag,
                   write_buffer_needs_flush, current_pos_in_storage,
                   read_worker_stop_flag, read_buffer_stale, read_eof_flag,
                   workerVars, store, failsLeft, acceptedLog, deliveredLog,
                   staleInFlight, writeFailed>>
    /\ UNCHANGED obsVars

\* woken from read_cv_consumer.wait: the next pass
conveyor_read_loop(c) ==
    /\ pc[c] = "cr_sleep" /\ ~asleep[c]
    /\ read_mutex = "free"
    /\ ReadPass(c, cur[c], TRUE)
    /\ UNCHANGED <<flags, write_buffer, write_mutex, write_worker_stop_flag,
                   write_buffer_needs_flush, current_pos_in_storage,
                   read_worker_stop_flag, read_buffer_stale, read_eof_flag,
                   workerVars, store, failsLeft, acceptedLog, deliveredLog,
                   staleInFlight, writeFailed>>
    /\ UNCHANGED obsVars

\* read_cv_consumer.wait: the predicate was false, the mutex is released
consumer_wait(c) ==
    /\ pc[c] = "cr_block"
    /\ read_mutex' = "free"
    /\ Block(c, "cr_sleep")
    /\ UNCHANGED <<flags, write_buffer, write_mutex, write_worker_stop_flag,
                   write_buffer_needs_flush, current_pos_in_storage, read_buffer,
                   read_worker_stop_flag, read_buffer_stale, read_worker_needs_fill,
                   read_eof_flag, current_file_offset, workerVars, cur, errno,
                   store, failsLeft, ghostVars>>
    /\ UNCHANGED obsVars

\* ------------------------------------- the logical offset, unsynchronised
\* current_file_offset is a plain off_t that conveyor_write advances under
\* write_mutex and conveyor_read under read_mutex: with a writing and a
\* reading thread the two "+=" are a data race. Each is a load followed by
\* a store, and the other thread may run between the two.

\* a pass of conveyor_write's loop up to the load of the offset
WritePassLoad(c, call) ==
    LET w == RingWriteGrowing(write_buffer, call.data)
    IN  IF call.remaining = 0 \/ write_worker_stop_flag \/ w.n = 0
        THEN WritePass(c, call)
        ELSE /\ write_buffer' = w.rb
             /\ write_queue' = write_queue
                    \o WriteRequests(current_file_offset, w.chunks)
             /\ cur' = [cur EXCEPT ![c] = [call EXCEPT
                           !.data = Rest(call.data, w.n),
                           !.remaining = call.remaining - w.n,
                           !.total = call.total + w.n,
                           !.loaded = current_file_offset + w.n]]
             /\ acceptedLog' = acceptedLog \o
                    [j \in 1..w.n |-> <<current_file_offset + j - 1, call.data[j]>>]
             /\ write_mutex' = c
             /\ pc' = [pc EXCEPT ![c] = "cw_store"]
             /\ UNCHANGED <<current_file_offset, asleep>>

conveyor_write_racy(c) ==
    /\ CanCall(c)
    /\ \E len \in 0..MaxWriteLen :
          LET call == [Call("write", len) EXCEPT !.src = SrcBytes(len),
                                                 !.data = SrcBytes(len)]
          IN  IF ~write_buffer_enabled
              THEN /\ Return(c, call, LIBCONVEYOR_ERROR, EBADF, << >>)
                   /\ UNCHANGED <<write_buffer, write_mutex, current_file_offset,
                                  acceptedLog, asleep, write_queue>>
              ELSE /\ write_mutex = "free"
                   /\ WritePassLoad(c, call)
                   /\ UNCHANGED <<hist, errno>>
    /\ UNCHANGED <<flags, write_worker_stop_flag, write_buffer_needs_flush,
                   current_pos_in_storage, read_buffer, read_mutex,
                   read_worker_stop_flag, read_buffer_stale, read_worker_needs_fill,
                   read_eof_flag, workerVars, store, failsLeft, deliveredLog,
                   staleInFlight, writeFailed>>
    /\ UNCHANGED <<generation, last_error, stats>>

conveyor_write_loop_racy(c) ==
    /\ pc[c] = "cw_sleep" /\ ~asleep[c]
    /\ write_mutex = "free"
    /\ WritePassLoad(c, cur[c])
    /\ UNCHANGED <<flags, write_worker_stop_flag, write_buffer_needs_flush,
                   current_pos_in_storage, read_buffer, read_mutex,
                   read_worker_stop_flag, read_buffer_stale, read_worker_needs_fill,
                   read_eof_flag, workerVars, errno, store, failsLeft, hist,
                   deliveredLog, staleInFlight, writeFailed>>
    /\ UNCHANGED <<generation, last_error, stats>>

\* the store of the offset, the notify and the loop condition
conveyor_write_store(c) ==
    /\ pc[c] = "cw_store"
    /\ current_file_offset' = cur[c].loaded
    /\ asleep' = Notify({"write_cv_consumer"})
    /\ IF cur[c].remaining = 0
       THEN /\ pc' = [pc EXCEPT ![c] = "cw_inval"]
            /\ write_mutex' = "free"
       ELSE /\ pc' = [pc EXCEPT ![c] = "cw_block"]
            /\ UNCHANGED write_mutex
    /\ UNCHANGED <<flags, write_buffer, write_worker_stop_flag,
                   write_buffer_needs_flush, current_pos_in_storage, read_buffer,
                   read_mutex, read_worker_stop_flag, read_buffer_stale,
                   read_worker_needs_fill, read_eof_flag, workerVars, cur, errno,
                   store, failsLeft, ghostVars>>
    /\ UNCHANGED obsVars

\* a pass of conveyor_read's loop up to the load of the offset
ReadPassLoad(c, call, woke) ==
    LET again == woke /\ ~(available_data(read_buffer) > 0 \/ read_eof_flag
                           \/ read_worker_stop_flag)
        out0 == IF woke THEN available_data(read_buffer) = 0
                ELSE \/ call.remaining = 0
                     \/ read_worker_stop_flag
                     \/ (empty(read_buffer) /\ read_eof_flag)
        r == RingRead(read_buffer, Min(call.remaining, available_data(read_buffer)))
        n == Len(r.out)
    IN  IF again \/ out0 \/ empty(read_buffer)
        THEN ReadPass(c, call, woke)
        ELSE /\ read_buffer' = r.rb
             /\ cur' = [cur EXCEPT ![c] = [call EXCEPT
                           !.data = call.data \o r.out,
                           !.remaining = call.remaining - n,
                           !.total = call.total + n,
                           !.loaded = current_file_offset + n]]
             /\ read_mutex' = c
             /\ pc' = [pc EXCEPT ![c] = "cr_store"]
             /\ UNCHANGED <<read_worker_needs_fill, current_file_offset, asleep,
                            hist, errno>>

conveyor_read_racy(c) ==
    /\ CanCall(c)
    /\ \E len \in 0..MaxReadLen :
          IF ~read_buffer_enabled
          THEN /\ Return(c, Call("read", len), LIBCONVEYOR_ERROR, EBADF, << >>)
               /\ UNCHANGED <<read_buffer, read_mutex, read_worker_needs_fill,
                              current_file_offset, asleep>>
          ELSE /\ read_mutex = "free"
               /\ ReadPassLoad(c, Call("read", len), FALSE)
    /\ UNCHANGED <<flags, write_buffer, write_mutex, write_worker_stop_flag,
                   write_buffer_needs_flush, current_pos_in_storage,
                   read_worker_stop_flag, read_buffer_stale, read_eof_flag,
                   workerVars, store, failsLeft, acceptedLog, deliveredLog,
                   staleInFlight, writeFailed>>
    /\ UNCHANGED obsVars

conveyor_read_loop_racy(c) ==
    /\ pc[c] = "cr_sleep" /\ ~asleep[c]
    /\ read_mutex = "free"
    /\ ReadPassLoad(c, cur[c], TRUE)
    /\ UNCHANGED <<flags, write_buffer, write_mutex, write_worker_stop_flag,
                   write_buffer_needs_flush, current_pos_in_storage,
                   read_worker_stop_flag, read_buffer_stale, read_eof_flag,
                   workerVars, store, failsLeft, acceptedLog, deliveredLog,
                   staleInFlight, writeFailed>>
    /\ UNCHANGED obsVars

\* the store of the offset, the notify and the loop condition
conveyor_read_store(c) ==
    /\ pc[c] = "cr_store"
    /\ current_file_offset' = cur[c].loaded
    /\ asleep' = Notify({"read_cv_producer"})
    /\ IF \/ cur[c].remaining = 0
          \/ read_worker_stop_flag
          \/ (empty(read_buffer) /\ read_eof_flag)
       THEN /\ Return(c, cur[c], cur[c].total, 0, cur[c].data)
            /\ read_mutex' = "free"
            /\ UNCHANGED read_worker_needs_fill
       ELSE /\ read_worker_needs_fill' = TRUE
            /\ pc' = [pc EXCEPT ![c] = "cr_block"]
            /\ UNCHANGED <<read_mutex, cur, hist, errno>>
    /\ UNCHANGED <<flags, write_buffer, write_mutex, write_worker_stop_flag,
                   write_buffer_needs_flush, current_pos_in_storage, read_buffer,
                   read_worker_stop_flag, read_buffer_stale, read_eof_flag,
                   workerVars, store, failsLeft, acceptedLog, deliveredLog,
                   staleInFlight, writeFailed>>
    /\ UNCHANGED obsVars

\* ------------------------------------------------------- conveyor_lseek
\* both mutexes taken with std::lock, ops.lseek called (the store moves its
\* position and returns it, or fails the call and returns a negative
\* value), and unless -1 came back both rings cleared and both offsets set
\* to the value returned
conveyor_lseek(c) ==
    /\ CanCall(c)
    /\ read_mutex = "free" /\ write_mutex = "free"
    /\ \E offset \in 0..MaxSeek :
        \E new_pos \in {StoreSeekPos(store, offset, "SEEK_SET")}
                        \cup (IF failsLeft > 0 THEN LseekErrors ELSE {}) :
          LET call == [Call("lseek", 0) EXCEPT !.off = offset]
          IN  /\ store' = IF new_pos >= 0
                          THEN StoreLseek(store, offset, "SEEK_SET") ELSE store
              /\ failsLeft' = IF new_pos >= 0 THEN failsLeft ELSE failsLeft - 1
              /\ IF new_pos # LIBCONVEYOR_ERROR
                 THEN /\ IF read_buffer_enabled
                         THEN /\ read_buffer' = RingClear(read_buffer)
                              /\ read_buffer_stale' = TRUE
                              /\ read_eof_flag' = FALSE
                         ELSE UNCHANGED <<read_buffer, read_buffer_stale, read_eof_flag>>
                      /\ write_buffer' = IF write_buffer_enabled
                                         THEN RingClear(write_buffer) ELSE write_buffer
                      /\ asleep' = Notify(
                            (IF read_buffer_enabled
                             THEN {"read_cv_consumer", "read_cv_producer"} ELSE {})
                            \cup (IF write_buffer_enabled
                                  THEN {"write_cv_consumer"} ELSE {}))
                      /\ write_queue' = IF write_buffer_enabled
                                        THEN << >> ELSE write_queue
                      /\ current_file_offset' = new_pos
                      /\ current_pos_in_storage' = new_pos
                      /\ generation' =
                            IF new_pos >= 0
                            THEN GenerationAfterSeek(generation,
                                                     current_file_offset, new_pos)
                            ELSE generation
                      /\ staleInFlight' =
                            (staleInFlight \/ (new_pos >= 0 /\ pc["rw"] = "rw_relock"))
                 ELSE UNCHANGED <<read_buffer, read_buffer_stale, read_eof_flag,
                                  write_buffer, asleep, current_file_offset,
                                  current_pos_in_storage, staleInFlight,
                                  write_queue, generation>>
              /\ Return(c, call, new_pos, errno[c], << >>)
    /\ UNCHANGED <<flags, write_mutex, write_worker_stop_flag,
                   write_buffer_needs_flush, read_mutex, read_worker_stop_flag,
                   read_worker_needs_fill, workerVars, acceptedLog,
                   deliveredLog, writeFailed>>
    /\ UNCHANGED <<last_error, stats>>

\* ---------------------------------------------------------- writeWorker
\* top of the loop, under write_mutex: wait predicate, exit test, the whole
\* ring moved into temp_flush_buffer, producers notified
writeWorker_loop ==
    /\ pc["ww"] = "ww_lock" \/ (pc["ww"] = "ww_sleep" /\ ~asleep["ww"])
    /\ write_mutex = "free"
    /\ LET bytes_to_flush == available_data(write_buffer)
           r == RingRead(write_buffer, bytes_to_flush)
       IN  IF ~(bytes_to_flush > 0 \/ write_buffer_needs_flush \/ write_worker_stop_flag)
           THEN /\ write_mutex' = "ww"
                /\ pc' = [pc EXCEPT !["ww"] = "ww_block"]
                /\ UNCHANGED <<write_buffer, write_buffer_needs_flush, asleep,
                               temp_flush_buffer, write_queue>>
           ELSE IF write_worker_stop_flag /\ empty(write_buffer)
           THEN /\ pc' = [pc EXCEPT !["ww"] = "done"]
                /\ UNCHANGED <<write_buffer, write_mutex, write_buffer_needs_flush,
                               asleep, temp_flush_buffer, write_queue>>
           ELSE /\ write_buffer' = r.rb
                /\ write_queue' = << >>
                /\ temp_flush_buffer' = IF bytes_to_flush > 0 THEN r.out
                                        ELSE temp_flush_buffer
                /\ write_buffer_needs_flush' = FALSE
                /\ asleep' = Notify({"write_cv_producer"})
                /\ pc' = [pc EXCEPT !["ww"] =
                             IF bytes_to_flush = 0 THEN "ww_lock"
                             ELSE IF flags.append THEN "ww_seekend" ELSE "ww_io"]
                /\ UNCHANGED write_mutex
    /\ UNCHANGED <<flags, write_worker_stop_flag, current_pos_in_storage,
                   read_buffer, read_mutex, read_worker_stop_flag, read_buffer_stale,
                   read_worker_needs_fill, read_eof_flag, current_file_offset,
                   written_to_storage, bytes_to_read_from_storage, temp_read_buffer,
                   bytes_read_from_ops,
                   cur, errno, store, failsLeft, ghostVars>>
    /\ UNCHANGED <<generation, last_error, stats>>

\* write_cv_consumer.wait: the predicate was false, the mutex is released
writeWorker_wait ==
    /\ pc["ww"] = "ww_block"
    /\ write_mutex' = "free"
    /\ Block("ww", "ww_sleep")
    /\ UNCHANGED <<flags, write_buffer, write_worker_stop_flag,
                   write_buffer_needs_flush, current_pos_in_storage, read_buffer,
                   read_mutex, read_worker_stop_flag, read_buffer_stale,
                   read_worker_needs_fill, read_eof_flag, current_file_offset,
                   workerVars, cur, errno, store, failsLeft, ghostVars>>
    /\ UNCHANGED obsVars

\* the I/O of one iteration, write_mutex released, one store call per step:
\* with O_APPEND first ops.lseek(handle, 0, SEEK_END), then
\* ops.write(handle, temp_flush_buffer, bytes_to_flush), which takes all the
\* bytes or fails
writeWorker_io ==
    /\ pc["ww"] \in {"ww_seekend", "ww_io"}
    /\ IF pc["ww"] = "ww_seekend"
       THEN /\ store' = StoreLseek(store, 0, "SEEK_END")
            /\ pc' = [pc EXCEPT !["ww"] = "ww_io"]
            /\ UNCHANGED <<written_to_storage, deliveredLog, failsLeft, writeFailed,
                           last_error, cur>>
       ELSE /\ \/ /\ store' = StoreWrite(store, temp_flush_buffer)
                  /\ written_to_storage' = Len(temp_flush_buffer)
                  /\ deliveredLog' = deliveredLog \o temp_flush_buffer
                  /\ UNCHANGED <<failsLeft, writeFailed, last_error, cur>>
               \/ /\ store.short_writes > 0
                  /\ \E k \in 0..(Len(temp_flush_buffer) - 1) :
                        /\ store' = [StoreWrite(store, SubSeq(temp_flush_buffer, 1, k))
                                        EXCEPT !.short_writes = @ - 1]
                        /\ written_to_storage' = k
                        /\ deliveredLog' = deliveredLog
                                              \o SubSeq(temp_flush_buffer, 1, k)
                  /\ UNCHANGED <<failsLeft, writeFailed, last_error, cur>>
               \/ /\ failsLeft > 0
                  /\ failsLeft' = failsLeft - 1
                  /\ written_to_storage' = LIBCONVEYOR_ERROR
                  /\ writeFailed' = TRUE
                  /\ \E code \in StoreErrors :
                        /\ last_error' = StickySet(last_error, code)
                        /\ cur' = [c \in Clients |->
                                     IF pc[c] \in {"cf_block", "cf_sleep"}
                                     THEN [cur[c] EXCEPT !.drainFailed = code]
                                     ELSE cur[c]]
                  /\ UNCHANGED <<store, deliveredLog>>
            /\ pc' = [pc EXCEPT !["ww"] = "ww_relock"]
    /\ UNCHANGED <<flags, engineVars, asleep, temp_flush_buffer,
                   bytes_to_read_from_storage, temp_read_buffer,
                   bytes_read_from_ops, errno,
                   hist, acceptedLog, staleInFlight>>
    /\ UNCHANGED <<generation, stats, write_queue>>

\* lock.lock() after the I/O, the position advanced, end of the iteration
writeWorker_relock ==
    /\ pc["ww"] = "ww_relock"
    /\ write_mutex = "free"
    /\ current_pos_in_storage' =
          IF written_to_storage > 0
          THEN current_pos_in_storage + written_to_storage
          ELSE current_pos_in_storage
    /\ stats' = IF written_to_storage > 0
                THEN StatsAdd(stats, written_to_storage) ELSE stats
    /\ temp_flush_buffer' = << >>
    /\ written_to_storage' = 0
    /\ pc' = [pc EXCEPT !["ww"] = "ww_lock"]
    /\ UNCHANGED <<flags, write_buffer, write_mutex, write_worker_stop_flag,
                   write_buffer_needs_flush, read_buffer, read_mutex,
                   read_worker_stop_flag, read_buffer_stale, read_worker_needs_fill,
                   read_eof_flag, current_file_offset, asleep,
                   bytes_to_read_from_storage, temp_read_buffer,
                   bytes_read_from_ops, cur,
                   errno, store, failsLeft, ghostVars>>
    /\ UNCHANGED <<generation, last_error, write_queue>>

\* ----------------------------------------------------------- readWorker
\* top of the loop, under read_mutex: wait predicate, exit test, a stale
\* ring cleared, the store repositioned, the size of the next read fixed
readWorker_loop ==
    /\ pc["rw"] = "rw_lock" \/ (pc["rw"] = "rw_sleep" /\ ~asleep["rw"])
    /\ read_mutex = "free"
    /\ LET rb == IF read_buffer_stale THEN RingClear(read_buffer) ELSE read_buffer
       IN  IF ~(available_space(read_buffer) > 0 \/ read_buffer_stale
                \/ read_worker_stop_flag \/ read_worker_needs_fill)
           THEN /\ read_mutex' = "rw"
                /\ pc' = [pc EXCEPT !["rw"] = "rw_block"]
                /\ UNCHANGED <<read_buffer, read_buffer_stale, read_worker_needs_fill,
                               asleep, store, bytes_to_read_from_storage>>
           ELSE IF read_worker_stop_flag
           THEN /\ pc' = [pc EXCEPT !["rw"] = "done"]
                /\ UNCHANGED <<read_buffer, read_mutex, read_buffer_stale,
                               read_worker_needs_fill, asleep, store,
                               bytes_to_read_from_storage>>
           ELSE /\ read_buffer' = rb
                /\ read_buffer_stale' = FALSE
                /\ IF available_space(rb) > 0
                   THEN /\ store' =
                            IF current_pos_in_storage #
                                  current_file_offset + available_data(rb)
                            THEN StoreLseek(store, current_pos_in_storage, "SEEK_SET")
                            ELSE store
                        /\ bytes_to_read_from_storage' = available_space(rb)
                        /\ pc' = [pc EXCEPT !["rw"] = "rw_io"]
                        /\ UNCHANGED <<read_worker_needs_fill, asleep>>
                   ELSE /\ read_worker_needs_fill' = FALSE
                        /\ asleep' = Notify({"read_cv_consumer"})
                        /\ pc' = [pc EXCEPT !["rw"] = "rw_lock"]
                        /\ UNCHANGED <<store, bytes_to_read_from_storage>>
                /\ UNCHANGED read_mutex
    /\ UNCHANGED <<flags, write_buffer, write_mutex, write_worker_stop_flag,
                   write_buffer_needs_flush, current_pos_in_storage,
                   read_worker_stop_flag, read_eof_flag, current_file_offset,
                   temp_flush_buffer, written_to_storage, temp_read_buffer,
                   bytes_read_from_ops, cur,
                   errno, failsLeft, ghostVars>>
    /\ UNCHANGED obsVars

\* read_cv_producer.wait: the predicate was false, the mutex is released
readWorker_wait ==
    /\ pc["rw"] = "rw_block"
    /\ read_mutex' = "free"
    /\ Block("rw", "rw_sleep")
    /\ UNCHANGED <<flags, write_buffer, write_mutex, write_worker_stop_flag,
                   write_buffer_needs_flush, current_pos_in_storage, read_buffer,
                   read_worker_stop_flag, read_buffer_stale, read_worker_needs_fill,
                   read_eof_flag, current_file_offset, workerVars, cur, errno,
                   store, failsLeft, ghostVars>>
    /\ UNCHANGED obsVars

\* ops.read(handle, temp_read_buffer, bytes_to_read_from_storage), mutex released
readWorker_io ==
    /\ pc["rw"] = "rw_io"
    /\ \/ /\ temp_read_buffer' = StoreReadBytes(store, bytes_to_read_from_storage)
          /\ bytes_read_from_ops' = Len(temp_read_buffer')
          /\ store' = [store EXCEPT !.pos = store.pos + Len(temp_read_buffer')]
          /\ UNCHANGED <<last_error, cur>>
       \/ /\ store.read_fails > 0
          /\ store' = [store EXCEPT !.read_fails = @ - 1]
          /\ temp_read_buffer' = << >>
          /\ bytes_read_from_ops' = LIBCONVEYOR_ERROR
          /\ \E code \in StoreErrors :
                /\ last_error' = StickySet(last_error, code)
                /\ cur' = [c \in Clients |->
                             IF pc[c] \in {"cr_block", "cr_sleep"}
                             THEN [cur[c] EXCEPT !.fillFailed = code]
                             ELSE cur[c]]
    /\ pc' = [pc EXCEPT !["rw"] = "rw_relock"]
    /\ UNCHANGED <<flags, engineVars, asleep, temp_flush_buffer, written_to_storage,
                   bytes_to_read_from_storage, errno, failsLeft, ghostVars>>
    /\ UNCHANGED <<generation, stats, write_queue>>

\* lock.lock() after the I/O: the bytes appended to the ring or EOF recorded,
\* the fill request cleared, consumers notified, end of the iteration
readWorker_relock ==
    /\ pc["rw"] = "rw_relock"
    /\ read_mutex = "free"
    /\ IF bytes_read_from_ops > 0
       THEN /\ read_buffer' = RingWrite(read_buffer, temp_read_buffer).rb
            /\ current_pos_in_storage' = current_pos_in_storage + bytes_read_from_ops
            /\ UNCHANGED read_eof_flag
       ELSE /\ read_eof_flag' = IF bytes_read_from_ops = 0 THEN TRUE ELSE read_eof_flag
            /\ UNCHANGED <<read_buffer, current_pos_in_storage>>
    /\ bytes_read_from_ops' = 0
    /\ read_worker_needs_fill' = FALSE
    /\ asleep' = Notify({"read_cv_consumer"})
    /\ temp_read_buffer' = << >>
    /\ bytes_to_read_from_storage' = 0
    /\ staleInFlight' = FALSE
    /\ pc' = [pc EXCEPT !["rw"] = "rw_lock"]
    /\ UNCHANGED <<flags, write_buffer, write_mutex, write_worker_stop_flag,
                   write_buffer_needs_flush, read_mutex, read_worker_stop_flag,
                   read_buffer_stale, current_file_offset, temp_flush_buffer,
                   written_to_storage, cur, errno,
                   store, failsLeft, hist, acceptedLog, deliveredLog, writeFailed>>
    /\ UNCHANGED obsVars

\* ------------------------------------------------------------ the system
\* -------------------------------------------------- observability calls
\* everything but the statistics, the sticky error and the call history
obsFrame == <<flags, engineVars, generation, write_queue, asleep, workerVars,
              store, failsLeft, acceptedLog, deliveredLog, staleInFlight,
              writeFailed>>

\* get_stats: under the write mutex, copy the counters out and zero them
conveyor_get_stats(c) ==
    /\ CanCall(c)
    /\ write_mutex = "free"
    /\ stats' = StatsReset(stats)
    /\ Return(c, Call("get_stats", 0), 0, 0, <<stats.bytes_written>>)
    /\ UNCHANGED <<obsFrame, last_error>>

\* get_last_error: return the sticky error and leave it
conveyor_get_last_error(c) ==
    /\ CanCall(c)
    /\ Return(c, Call("get_last_error", 0), last_error, 0, << >>)
    /\ UNCHANGED <<obsFrame, last_error, stats>>

\* clear_error: zero the sticky error
conveyor_clear_error(c) ==
    /\ CanCall(c)
    /\ last_error' = 0
    /\ Return(c, Call("clear_error", 0), 0, 0, << >>)
    /\ UNCHANGED <<obsFrame, stats>>

Next ==
    \/ \E c \in Clients : conveyor_write(c)
    \/ \E c \in Clients : conveyor_write_loop(c)
    \/ \E c \in Clients : producer_wait(c)
    \/ \E c \in Clients : conveyor_write_return(c)
    \/ \E c \in Clients : conveyor_flush(c)
    \/ \E c \in Clients : conveyor_flush_wait(c)
    \/ \E c \in Clients : conveyor_read(c)
    \/ \E c \in Clients : conveyor_read_loop(c)
    \/ \E c \in Clients : consumer_wait(c)
    \/ \E c \in Clients : conveyor_lseek(c)
    \/ \E c \in Clients : conveyor_destroy(c)
    \/ \E c \in Clients : destroy_stop_reader(c)
    \/ \E c \in Clients : destroy_join_reader(c)
    \/ \E c \in Clients : destroy_stop_writer(c)
    \/ \E c \in Clients : destroy_join_writer(c)
    \/ writeWorker_loop
    \/ writeWorker_wait
    \/ writeWorker_io
    \/ writeWorker_relock
    \/ readWorker_loop
    \/ readWorker_wait
    \/ readWorker_io
    \/ readWorker_relock

Spec == Init /\ [][Next]_vars

\* the engine's calls together with the observability calls
NextObs ==
    \/ Next
    \/ \E c \in Clients : conveyor_get_stats(c)
    \/ \E c \in Clients : conveyor_get_last_error(c)
    \/ \E c \in Clients : conveyor_clear_error(c)

\* thread c1 reading and thread c2 writing, the two offset updates as loads
\* and stores
NextRace ==
    \/ conveyor_write_racy("c2")
    \/ conveyor_write_loop_racy("c2")
    \/ conveyor_write_store("c2")
    \/ producer_wait("c2")
    \/ conveyor_write_return("c2")
    \/ conveyor_read_racy("c1")
    \/ conveyor_read_loop_racy("c1")
    \/ conveyor_read_store("c1")
    \/ consumer_wait("c1")
    \/ writeWorker_loop
    \/ writeWorker_wait
    \/ writeWorker_io
    \/ writeWorker_relock
    \/ readWorker_loop
    \/ readWorker_wait
    \/ readWorker_io
    \/ readWorker_relock

\* the two threads on one read-write engine
InitRace == CreateFor(ModesRW, 0, Clients)
SpecRace == InitRace /\ [][NextRace]_vars

\* one thread on a store that can fail MaxFailObs times
InitObs == Create(Modes, MaxFailObs)

SpecObs == InitObs /\ [][NextObs]_vars

\* a backing store that fails MaxReadFail reads and shortens MaxShortWrite
\* writes
StoreFaulty ==
    [StoreOf(StoreInit) EXCEPT !.read_fails = MaxReadFail,
                               !.short_writes = MaxShortWrite]

\* the engines of Init over that store
InitFaulty ==
    CreateOn(Modes, 0, {"c1"}, WriteCap, ReadCap, WriteCap, ReadCap, StoreFaulty)

SpecFaulty == InitFaulty /\ [][Next]_vars

\* ------------------------------------------------- the ring buffer alone
\* the byte strings handed to RingBuffer::write
RingInputs ==
    UNION {[1..k -> RingBytes] : k \in 0..MaxRingLen}

\* everything but the read ring and the record of the last call
ringFrame == <<flags, write_buffer, write_mutex, write_worker_stop_flag,
               write_buffer_needs_flush, current_pos_in_storage, read_mutex,
               read_worker_stop_flag, read_buffer_stale, read_worker_needs_fill,
               read_eof_flag, current_file_offset, obsVars, pc, asleep,
               workerVars, cur, errno, store, failsLeft, acceptedLog,
               deliveredLog, staleInFlight, writeFailed>>

\* the call just made on the ring: the ring before it, its argument and
\* what it returned
RingCall(op, arg, out) ==
    <<[op |-> op, rb |-> read_buffer, arg |-> arg, out |-> out]>>

ring_write ==
    \E data \in RingInputs :
        LET w == RingWrite(read_buffer, data)
        IN  /\ read_buffer' = w.rb
            /\ hist' = RingCall("write", data, w.n)
            /\ UNCHANGED ringFrame

\* read(data, len), data a buffer or nullptr
ring_read ==
    \E len \in 0..MaxRingLen, null \in BOOLEAN :
        LET r == RingRead(read_buffer, len)
        IN  /\ read_buffer' = r.rb
            /\ hist' = RingCall(IF null THEN "read_null" ELSE "read", len,
                                IF null THEN << >> ELSE r.out)
            /\ UNCHANGED ringFrame

ring_peek_at ==
    \E pos \in 0..(2 * read_buffer.capacity - 1), len \in 0..read_buffer.capacity :
        /\ hist' = RingCall("peek_at", <<pos, len>>, peek_at(read_buffer, pos, len))
        /\ UNCHANGED <<read_buffer, ringFrame>>

ring_resize ==
    \E new_capacity \in 0..GrowMax :
        /\ read_buffer' = resize(read_buffer, new_capacity)
        /\ hist' = RingCall("resize", new_capacity, << >>)
        /\ UNCHANGED ringFrame

ring_clear ==
    /\ read_buffer' = RingClear(read_buffer)
    /\ hist' = RingCall("clear", 0, << >>)
    /\ UNCHANGED ringFrame

NextRing ==
    \/ ring_write
    \/ ring_read
    \/ ring_peek_at
    \/ ring_resize
    \/ ring_clear

\* RingBuffer(cap) for the capacities the engines above start with
InitRing ==
    \E cap \in {SmallCap, ReadCap} :
        CreateWith(ModesMT, 0, {"c1"}, WriteCap, cap, WriteCap, GrowMax, StoreInit)

SpecRing == InitRing /\ [][NextRing]_vars

\* the same engine opened O_RDWR on a store that never fails
SpecRW == InitRW /\ [][Next]_vars

\* one application thread on an engine with small rings
SpecSmall == InitSmall /\ [][Next]_vars

\* two application threads on one read-only or write-only engine
SpecMT == InitMT /\ [][Next]_vars
\* two application threads on an engine with 1-byte rings
SpecMTSmall == InitMTSmall /\ [][Next]_vars
\* rings that may grow
SpecGrow == InitGrow /\ [][Next]_vars
\* read-write engines over an empty store
SpecEmpty == InitEmpty /\ [][Next]_vars

\* engines created with no write ring among those of Spec
SpecUnbuf == InitUnbuf /\ [][Next]_vars

\* ------------------------------------------------------------ properties
Last(s) == s[Len(s)]
Destroyed == \E c \in Clients : pc[c] = "done"
OnlyOps(ops) == \A i \in 1..Len(hist) : hist[i].op \in ops
\* a call has just returned to its client
Returned(op) == Len(hist') = Len(hist) + 1 /\ Last(hist').op = op

\* the bytes conveyor_write accepted, in order of acceptance
AcceptedBytes == [j \in 1..Len(acceptedLog) |-> acceptedLog[j][2]]
\* the file offsets conveyor_write accepted a byte at
AcceptedOffsets == {acceptedLog[j][1] : j \in 1..Len(acceptedLog)}
\* the byte accepted last at file offset o
LastAcceptedAt(o) ==
    LET js == {j \in 1..Len(acceptedLog) : acceptedLog[j][1] = o}
    IN  acceptedLog[CHOOSE j \in js : \A k \in js : k <= j][2]
\* the length and the bytes of the file that holds the initial store with
\* every accepted write applied at its logical offset, in acceptance order
ExpectedLen ==
    Max(InitStoreLen,
        IF AcceptedOffsets = {} THEN 0
        ELSE 1 + CHOOSE o \in AcceptedOffsets : \A q \in AcceptedOffsets : q <= o)
Expected ==
    [j \in 1..ExpectedLen |->
        IF (j - 1) \in AcceptedOffsets THEN LastAcceptedAt(j - 1)
        ELSE IF j <= InitStoreLen THEN StoreInit[j] ELSE 0]

\* a backing-store call has failed: an ops.write of the write worker, or
\* the ops.lseek of a conveyor_lseek
StoreFailed ==
    writeFailed \/ \E i \in 1..Len(hist) : hist[i].op = "lseek" /\ hist[i].ret < 0

\* C1. Flush durability: when conveyor_flush returns 0 (here with no seek
\* called and no store failure before), every byte accepted so far has been
\* delivered by an ops.write call that returned, in acceptance order.
C1_FlushDurability ==
    [][(Returned("flush") /\ Last(hist').ret = 0 /\ write_buffer_enabled
        /\ ~writeFailed' /\ OnlyOps({"write", "flush"}))
       => deliveredLog' = AcceptedBytes']_vars

\* C2. Seek is a write barrier and discards nothing: after a sequence of
\* conveyor_write and conveyor_lseek(SEEK_SET) calls and conveyor_destroy,
\* with no store failure, the store holds every accepted write at the
\* logical offset it was accepted at.
C2_SeekIsWriteBarrier ==
    (Destroyed /\ write_buffer_enabled /\ ~flags.append /\ ~StoreFailed
     /\ OnlyOps({"write", "lseek", "destroy"}))
    => store.data = Expected

\* C3. Write-then-read round trip on a read-write engine: write(src, n) at
\* offset k, then lseek(k), then read(dst, n), with no flush between:
\* the read returns n and dst = src.
C3_WriteReadRoundTrip ==
    \A i \in 1..Len(hist) :
        (/\ i + 2 <= Len(hist)
         /\ flags.acc = "O_RDWR"
         /\ hist[i].op = "write" /\ hist[i].ret = hist[i].len
         /\ hist[i + 1].op = "lseek" /\ hist[i + 1].off = hist[i].off
         /\ hist[i + 2].op = "read" /\ hist[i + 2].len = hist[i].len)
        => /\ hist[i + 2].ret = hist[i].len
           /\ hist[i + 2].data = hist[i].data

\* the requested range of a read holds an offset with an accepted write and
\* an offset with none
PartlyOverlaps(e) ==
    /\ \E p \in e.off..(e.off + e.len - 1) : p \in AcceptedOffsets
    /\ \E p \in e.off..(e.off + e.len - 1) : p \notin AcceptedOffsets

\* C4. Snoop correctness: a read of a range that partly overlaps accepted
\* writes returns the written byte at every offset a write was accepted at
\* and the backing-store byte at every other offset, whether or not the
\* writes have reached the store.
C4_SnoopCorrectness ==
    [][(Returned("read") /\ flags.acc = "O_RDWR" /\ PartlyOverlaps(Last(hist')))
       => LET e == Last(hist')
          IN  /\ e.ret = Len(e.data)
              /\ \A j \in 1..Len(e.data) :
                    /\ e.off + j <= ExpectedLen
                    /\ e.data[j] = Expected[e.off + j]]_vars

\* C5. Seek generation: the bytes of an ops.read that was in flight when
\* conveyor_lseek completed (read before the seek, not yet taken over by
\* the worker) are never appended to the read ring.
C5_SeekGeneration ==
    [][(pc["rw"] = "rw_relock" /\ pc'["rw"] = "rw_lock" /\ staleInFlight)
       => read_buffer' = read_buffer]_vars

\* C6. Sticky error propagation: every conveyor_read, conveyor_write,
\* conveyor_flush and conveyor_lseek called after an ops.write of the write
\* worker failed returns -1 with errno EIO.
C6_StickyError ==
    \A i \in 1..Len(hist) :
        (hist[i].failedBefore /\ hist[i].op \in {"read", "write", "flush", "lseek"})
        => hist[i].ret = LIBCONVEYOR_ERROR /\ hist[i].err = EIO

\* a conveyor_write on a read-only engine, a conveyor_read on a write-only one
ModeViolation(e) ==
    \/ e.op = "write" /\ flags.acc = "O_RDONLY"
    \/ e.op = "read" /\ flags.acc = "O_WRONLY"

\* C7. Mode enforcement: conveyor_write on a read-only engine and
\* conveyor_read on a write-only engine return -1 with errno EBADF, change
\* no engine state and call no backing-store operation.
C7_ModeEnforcement ==
    /\ [](\A i \in 1..Len(hist) :
             ModeViolation(hist[i])
             => hist[i].ret = LIBCONVEYOR_ERROR /\ hist[i].err = EBADF)
    /\ [][\A c \in Clients :
             (Len(hist') = Len(hist) + 1 /\ Last(hist').who = c
              /\ ModeViolation(Last(hist')))
             => /\ errno'[c] = EBADF
                /\ UNCHANGED <<flags, engineVars, workerVars, store,
                               acceptedLog, deliveredLog>>]_vars

\* C7 witness: a conveyor_write on a read-only engine has returned -1 / EBADF
\* while the read worker had already read from the store
C7_Witness ==
    \E i \in 1..Len(hist) :
        /\ hist[i].op = "write" /\ flags.acc = "O_RDONLY"
        /\ hist[i].ret = LIBCONVEYOR_ERROR /\ hist[i].err = EBADF
        /\ errno[hist[i].who] = EBADF
        /\ store.pos > 0

\* C8. FIFO write ordering: once everything is drained, at every offset
\* that more than one write was accepted at, the store holds the byte of
\* the write accepted last.
C8_FifoSameOffset ==
    (Destroyed /\ write_buffer_enabled /\ ~flags.append /\ ~StoreFailed)
    => \A o \in AcceptedOffsets :
          Cardinality({j \in 1..Len(acceptedLog) : acceptedLog[j][1] = o}) > 1
          => o < Len(store.data) /\ store.data[o + 1] = LastAcceptedAt(o)

\* C9. Destroy drains: when conveyor_destroy has returned and no store
\* failure occurred, every accepted byte has been delivered to the store,
\* with no conveyor_flush needed.
C9_DestroyDrains ==
    (Destroyed /\ ~StoreFailed) => deliveredLog = AcceptedBytes

\* C10. Destroy terminates: while conveyor_destroy has not returned, some
\* thread can take a step; no worker sleeps through the stop signal.
C10_DestroyTerminates ==
    \A c \in Clients :
        (cur[c].op = "destroy" /\ pc[c] # "done") => ENABLED Next

\* a thread that is inside a call or a worker loop and not blocked in a
\* condition-variable wait
Runnable(t) == pc[t] \notin {"idle", "off", "done"} /\ ~asleep[t]

\* C11. Deadlock freedom: whenever a client is blocked inside
\* conveyor_write, conveyor_read or conveyor_flush, some thread of the
\* engine is running and can wake it; no state has every thread that is
\* inside the engine waiting.
C11_DeadlockFreedom ==
    (\E c \in Clients : asleep[c]) => \E t \in Threads : Runnable(t)

\* C12. Oversized write: a conveyor_write longer than the write ring's
\* capacity returns -1 with errno EMSGSIZE and makes no partial progress:
\* at no time has such a call copied a byte into the ring.
C12_OversizedWrite ==
    /\ \A c \in Clients :
          (cur[c].op = "write" /\ cur[c].len > write_buffer.capacity)
          => cur[c].total = 0
    /\ \A i \in 1..Len(hist) :
          (hist[i].op = "write" /\ write_buffer_enabled
           /\ hist[i].len > write_buffer.capacity)
          => /\ hist[i].ret = LIBCONVEYOR_ERROR
             /\ hist[i].err = EMSGSIZE
             /\ hist[i].data = << >>

\* C13. Write timeout: a conveyor_write that went to wait for space in the
\* write ring never stays blocked forever. While it waits, either some
\* thread is running and can end the wait by notifying write_cv_producer,
\* or the wait ends by itself (the timeout) and the call resumes.
C13_WriteTimeout ==
    \A c \in Clients :
        (pc[c] = "cw_sleep" /\ asleep[c])
        => \/ \E t \in Threads \ {c} : Runnable(t)
           \/ ENABLED conveyor_write_loop(c)

\* a conveyor_write or conveyor_read called with count 0
ZeroLength(e) == e.op \in {"write", "read"} /\ e.len = 0

\* every call made so far, returned or in progress, is a zero-length write
\* or read, or the final conveyor_destroy
OnlyZeroLength ==
    /\ \A i \in 1..Len(hist) : ZeroLength(hist[i]) \/ hist[i].op = "destroy"
    /\ \A c \in Clients : cur[c].op \in {"none", "destroy"} \/ ZeroLength(cur[c])

\* C14. Zero-length operations on a read-write engine: conveyor_write(_, 0)
\* and conveyor_read(_, 0) return 0; while no other call was made nothing
\* is enqueued, the logical offset stays 0, the backing store keeps its
\* bytes, also after conveyor_destroy, and no backing-store call is produced:
\* the read worker's reads are those of its read-ahead, which never asks
\* for more than the ring's capacity in all.
C14_ZeroLengthOps ==
    /\ \A i \in 1..Len(hist) :
          ZeroLength(hist[i]) /\ flags.acc = "O_RDWR"
          => hist[i].ret = 0 /\ hist[i].data = << >>
    /\ (OnlyZeroLength /\ flags.acc = "O_RDWR")
       => /\ current_file_offset = 0
          /\ empty(write_buffer)
          /\ acceptedLog = << >>
          /\ deliveredLog = << >>
          /\ store.data = StoreInit
          /\ pc["rw"] = "rw_io"
             => current_pos_in_storage + bytes_to_read_from_storage
                   <= read_buffer.capacity

RingContents(rb) == RingRead(rb, rb.size).out

\* the bytes the write worker has taken from the ring and not yet written
InWorkerHand ==
    IF pc["ww"] \in {"ww_seekend", "ww_io"} THEN temp_flush_buffer ELSE << >>

Reads == SelectSeq(hist, LAMBDA e : e.op = "read")

\* C18. Sequential read to EOF: on a read-only engine that is only read,
\* from offset 0 and without conveyor_lseek, each conveyor_read starts
\* where the one before it ended and returns the bytes the store holds
\* from there, none skipped and none twice; a call for at least one byte
\* returns a positive count while bytes are left and 0 only at the end of
\* the store.
C18_SequentialReadToEof ==
    (flags.acc = "O_RDONLY" /\ OnlyOps({"read", "destroy"}))
    => /\ \A i \in 1..Len(Reads) :
             LET e == Reads[i]
             IN  /\ e.off = IF i = 1 THEN 0 ELSE Reads[i - 1].off + Reads[i - 1].ret
                 /\ e.ret = Len(e.data)
                 /\ e.off + e.ret <= Len(StoreInit)
                 /\ e.data = SubSeq(StoreInit, e.off + 1, e.off + e.ret)
                 /\ e.len > 0 => (e.ret = 0 <=> e.off = Len(StoreInit))
       /\ \A c \in Clients :
             cur[c].op = "read"
             => cur[c].data = SubSeq(StoreInit, cur[c].off + 1,
                                     cur[c].off + cur[c].total)

\* C18 witness: a read-only engine has delivered the whole store over two
\* reads and a third read has returned 0
C18_Witness ==
    /\ flags.acc = "O_RDONLY"
    /\ Len(hist) = 3 /\ Len(Reads) = 3
    /\ Reads[1].ret > 0 /\ Reads[2].ret > 0
    /\ Reads[1].data \o Reads[2].data = StoreInit
    /\ Reads[3].len > 0 /\ Reads[3].ret = 0

\* C19. Large read: a conveyor_read for more bytes than the read ring's
\* capacity, called at an offset from which the store holds at least that
\* many bytes, returns exactly that many bytes, the store's bytes from
\* that offset, in the one call.
C19_LargeRead ==
    \A i \in 1..Len(hist) :
        LET e == hist[i]
        IN  (/\ e.op = "read" /\ read_buffer_enabled
             /\ e.len > read_buffer.capacity
             /\ e.off + e.len <= Len(StoreInit)
             /\ OnlyOps({"read", "lseek", "destroy"}))
            => /\ e.ret = e.len
               /\ e.data = SubSeq(StoreInit, e.off + 1, e.off + e.len)

\* C20. Read past the end of the store: on a read-write engine, a write of
\* m bytes accepted at an offset at or past the end of the backing store,
\* then conveyor_lseek back to that offset, then a read of m bytes: the
\* read returns m and the bytes written, whether or not the store write
\* has happened and although the store had no byte at that offset.
C20_ReadPastEnd ==
    \A i \in 1..Len(hist) :
        (/\ i + 2 <= Len(hist)
         /\ flags.acc = "O_RDWR"
         /\ hist[i].op = "write" /\ hist[i].len > 0 /\ hist[i].ret = hist[i].len
         /\ hist[i].off >= Len(StoreEmpty)
         /\ hist[i + 1].op = "lseek" /\ hist[i + 1].ret = hist[i].off
         /\ hist[i + 2].op = "read" /\ hist[i + 2].len = hist[i].len)
        => /\ hist[i + 2].ret = hist[i].len
           /\ hist[i + 2].data = hist[i].data

\* the byte sequences appended to a ring rb in the ring properties: every
\* length up to one more than the ring's capacity, of bytes no ring holds
AppendInputs(rb) == {[j \in 1..k |-> 0 - j] : k \in 0..(rb.capacity + 1)}

C26_WrapAroundOverwrites ==
    \A rb \in {write_buffer, read_buffer} :
        \A data \in AppendInputs(rb) :
            (rb.size > 0 /\ Len(data) > available_space(rb)
             /\ Len(data) <= rb.capacity)
            => LET w == RingWrite(rb, data)
                   all == RingContents(rb) \o data
               IN  /\ w.rb.size = rb.capacity
                   /\ RingContents(w.rb)
                         = SubSeq(all, Len(all) - rb.capacity + 1, Len(all))

\* C22. Unbuffered write: on a write-only engine created with write
\* capacity 0, conveyor_write does not block; each call for at least one
\* byte passes its bytes to the backing store before it returns: it returns
\* its full length with the bytes delivered, or -1 with errno EIO after a
\* failed store write that left the store unchanged, and a failure does not
\* make the next call fail.
C22_UnbufferedWrite ==
    (flags.acc = "O_WRONLY" /\ write_buffer.capacity = 0)
    => /\ \A c \in Clients : pc[c] \notin {"cw_block", "cw_sleep"}
       /\ \A i \in 1..Len(hist) :
             hist[i].op = "write"
             => \/ hist[i].ret = hist[i].len
                \/ /\ hist[i].ret = LIBCONVEYOR_ERROR
                   /\ hist[i].err = EIO
                   /\ ~hist[i].failedBefore
       /\ (pc["c1"] = "idle" /\ ~writeFailed) => deliveredLog = AcceptedBytes

\* C24. Failed seek changes nothing: when the backing store's lseek
\* callback returns a negative value, conveyor_lseek returns an error and
\* the logical offset, the read worker's fill offset, both rings, the stale
\* mark and the EOF flag are exactly as before the call.
C24_FailedSeek ==
    [][(Returned("lseek") /\ failsLeft' < failsLeft)
       => /\ Last(hist').ret < 0
          /\ UNCHANGED <<current_file_offset, current_pos_in_storage,
                         read_buffer, write_buffer, read_buffer_stale,
                         read_eof_flag>>]_vars

\* C27. No visibility gap: the write worker releases ring space only after
\* the backing-store write for it has succeeded, so at every moment each
\* accepted byte is still in the write ring or already on the backing
\* store: while the client only writes, reads and flushes, the bytes
\* delivered followed by the bytes in the ring are the bytes accepted.
C27_NoVisibilityGap ==
    (write_buffer_enabled /\ OnlyOps({"write", "read", "flush", "destroy"}))
    => deliveredLog \o RingContents(write_buffer) = AcceptedBytes

\* C29. Successful seek post-state: when conveyor_lseek returns p >= 0 the
\* logical offset and the read worker's fill offset equal p, the read ring
\* is empty, the EOF flag is clear and the generation counter is one more
\* than before; and on an engine that is only read
\* and repositioned, the conveyor_read that follows starts at p and returns
\* the backing store's bytes from p, at least one if the store holds a
\* byte at p, and nothing cached from the old position.
C29_SeekPostState ==
    /\ [][(Returned("lseek") /\ Last(hist').ret >= 0)
             => /\ current_file_offset' = Last(hist').ret
                /\ current_pos_in_storage' = Last(hist').ret
                /\ read_buffer_enabled => empty(read_buffer') /\ ~read_eof_flag'
                /\ generation' = generation + 1]_vars
    /\ [](\A i \in 1..Len(hist) :
             (/\ i + 1 <= Len(hist)
              /\ read_buffer_enabled
              /\ OnlyOps({"read", "lseek", "destroy"})
              /\ hist[i].op = "lseek" /\ hist[i].ret >= 0
              /\ hist[i + 1].op = "read")
             => LET q == hist[i].ret
                    e == hist[i + 1]
                IN  /\ e.off = q
                    /\ e.ret = Len(e.data)
                    /\ q + e.ret <= Len(StoreInit)
                    /\ e.data = SubSeq(StoreInit, q + 1, q + e.ret)
                    /\ (e.len > 0 /\ q < Len(StoreInit)) => e.ret > 0)

RECURSIVE StatsReported(_)
StatsReported(n) ==
    IF n = 0 THEN 0
    ELSE StatsReported(n - 1)
         + (IF hist[n].op = "get_stats" THEN hist[n].data[1] ELSE 0)

\* bytes the write worker has written and not yet added to the counters
\* (it re-takes the write mutex first)
StatsPending ==
    IF pc["ww"] = "ww_relock" /\ written_to_storage > 0
    THEN written_to_storage ELSE 0

RECURSIVE QueuedBytes(_)
QueuedBytes(n) ==
    IF n = 0 THEN 0 ELSE QueuedBytes(n - 1) + write_queue[n].length

\* the bytes accepted for the live requests: the bytes accepted last
LiveAccepted ==
    SubSeq(AcceptedBytes,
           Len(AcceptedBytes) - QueuedBytes(Len(write_queue)) + 1,
           Len(AcceptedBytes))

NoSeekSoFar == OnlyOps({"write", "read", "flush", "destroy"})

\* every conveyor_write so far accepted at least one byte
WritesAccepted ==
    \A i \in 1..Len(hist) : hist[i].op = "write" => hist[i].ret > 0

\* a conveyor_read takes bytes out of the read ring in this step
ReadDelivers ==
    read_buffer' # read_buffer /\ current_file_offset' > current_file_offset

\* C31. Write invalidates the read cache: on an engine that was only
\* read and written, every write accepting bytes, a conveyor_read takes no byte out of the read ring
\* while the ring is marked stale by a write (the bytes then in the ring come
\* from a backing-store read in flight during the write), and when the read
\* worker takes the stale mark over the EOF flag is reset.
C31_WriteInvalidatesReadCache ==
    [][(NoSeekSoFar /\ WritesAccepted)
          => /\ ReadDelivers => ~read_buffer_stale
             /\ (read_buffer_stale /\ ~read_buffer_stale') => ~read_eof_flag']_vars

\* C32. Backing-store read failure reaches the reader: a conveyor_read that
\* was blocked waiting for a fill when the read worker's backing-store read
\* failed returns -1 with the code the store reported; it returns neither
\* bytes nor 0.
C32_ReadFailureReachesReader ==
    \A i \in 1..Len(hist) :
        (hist[i].op = "read" /\ hist[i].fillFailed # 0)
        => hist[i].ret = LIBCONVEYOR_ERROR /\ hist[i].err = hist[i].fillFailed

\* C33. Flush under failure: a conveyor_flush that was blocked waiting for
\* the drain when a backing-store write of the write worker failed returns
\* -1 with the code the store reported, and so never 0.
C33_FlushUnderFailure ==
    \A i \in 1..Len(hist) :
        (hist[i].op = "flush" /\ hist[i].drainFailed # 0)
        => hist[i].ret = LIBCONVEYOR_ERROR /\ hist[i].err = hist[i].drainFailed

\* the write worker is between two drains: no backing-store write of its
\* own is in progress
WriteWorkerBetweenDrains == pc["ww"] \notin {"ww_seekend", "ww_io", "ww_relock"}

\* C34. Short-write retry: on an engine that was only written and flushed
\* over a store whose writes never return a negative value, whenever the
\* write worker is between two drains every byte it took out of the ring is
\* on the store: the bytes delivered followed by the bytes still in the
\* ring are the bytes accepted, also after a backing-store write that
\* returned a short count.
C34_ShortWriteRetry ==
    (write_buffer_enabled /\ NoSeekSoFar /\ ~StoreFailed
        /\ WriteWorkerBetweenDrains)
    => deliveredLog \o RingContents(write_buffer) = AcceptedBytes

\* the structural invariant of a ring
RingInvariant(rb) ==
    /\ rb.size \in 0..rb.capacity
    /\ rb.head \in 0..(rb.capacity - 1)
    /\ rb.tail \in 0..(rb.capacity - 1)
    /\ rb.head = (rb.tail + rb.size) % rb.capacity

\* C35. Ring buffer invariant: for a ring of capacity > 0, after any
\* sequence of write, read (with a buffer or a null destination), peek_at,
\* resize and clear, 0 <= size <= capacity, head and tail are in
\* [0, capacity), and head = (tail + size) mod capacity.
C35_RingInvariant ==
    read_buffer.capacity > 0 => RingInvariant(read_buffer)

\* a read with a null destination has just left a grown ring wrapped: the
\* bytes start behind the head
C35_Witness ==
    /\ Len(hist) = 1 /\ hist[1].op = "read_null"
    /\ read_buffer.capacity > SmallCap
    /\ read_buffer.size > 0 /\ read_buffer.head < read_buffer.tail
    /\ read_buffer # hist[1].rb

\* C36. Resize preserves content: resize(n) with n > capacity, on a ring
\* that is empty, contiguous, wrapped or full with head = tail, leaves size
\* unchanged, sets tail to 0, head to size and capacity to n, and every read
\* returns afterwards the bytes it would have returned before; resize(n)
\* with n <= capacity changes nothing.
C36_ResizePreservesContent ==
    (Len(hist) = 1 /\ hist[1].op = "resize")
    => LET old == hist[1].rb
           n == hist[1].arg
       IN  IF n > old.capacity
           THEN /\ read_buffer.size = old.size
                /\ read_buffer.tail = 0
                /\ read_buffer.head = old.size
                /\ read_buffer.capacity = n
                /\ \A len \in 0..GrowMax :
                      RingRead(read_buffer, len).out = RingRead(old, len).out
           ELSE read_buffer = old

\* a full ring whose head and tail met inside the storage has been grown
C36_Witness ==
    /\ Len(hist) = 1 /\ hist[1].op = "resize"
    /\ hist[1].rb.size = hist[1].rb.capacity
    /\ hist[1].rb.head = hist[1].rb.tail /\ hist[1].rb.tail > 0
    /\ hist[1].arg > hist[1].rb.capacity
    /\ read_buffer.capacity = hist[1].arg

\* ---------------------------------------------------------------------
\* C37: concurrent writers lose nothing. While no seek has been made, the
\* chunks accepted from the writing threads have target offsets that follow
\* one another without gap or overlap from offset 0 (one byte of
\* acceptedLog per offset, in order of acceptance), and once
\* conveyor_destroy has returned the worker has delivered exactly the
\* accepted bytes, which are what the backing store holds from offset 0.
AcceptedTiles ==
    \A j \in 1..Len(acceptedLog) : acceptedLog[j][1] = j - 1
StoreHoldsAccepted ==
    /\ deliveredLog = AcceptedBytes
    /\ Len(store.data) >= Len(acceptedLog)
    /\ SubSeq(store.data, 1, Len(acceptedLog)) = AcceptedBytes
C37_ConcurrentWritersLoseNothing ==
    (write_buffer_enabled /\ NoSeekSoFar) =>
        /\ AcceptedTiles
        /\ Destroyed => StoreHoldsAccepted
\* both threads have written, one of them while the other's write was
\* blocked half-way, and the engine has been destroyed
C37_Witness ==
    /\ Destroyed
    /\ \E i, k \in 1..Len(hist) :
          /\ hist[i].op = "write" /\ hist[k].op = "write"
          /\ hist[i].who # hist[k].who
          /\ hist[i].ret = 2 /\ hist[k].ret = 1
          /\ hist[i].off < hist[k].off
          /\ hist[k].off < hist[i].off + hist[i].ret

\* ---------------------------------------------------------------------
\* C38: statistics are current at flush return. When conveyor_get_stats is
\* called right after a conveyor_flush that returned 0 (writes, flushes and
\* get_stats only, no store failure), the bytes_written it reports, added
\* to what the earlier get_stats calls reported, is the number of bytes
\* accepted so far: the counter already accounts for every byte the flush
\* delivered.
C38_StatsCurrentAtFlushReturn ==
    [][(/\ Returned("get_stats")
        /\ Len(hist) > 0 /\ Last(hist).op = "flush" /\ Last(hist).ret = 0
        /\ write_buffer_enabled /\ ~writeFailed
        /\ OnlyOps({"write", "flush", "get_stats"}))
       => StatsReported(Len(hist)) + Last(hist').data[1]
              = Len(acceptedLog')]_vars

\* ---------------------------------------------------------------------
\* C39: no lost update of the logical offset. With a reading and a writing
\* thread on a read-write engine and no seek, once every call has returned
\* the logical offset is the offset at creation (0) plus the bytes the
\* reads returned plus the bytes the writes accepted.
RECURSIVE BytesMoved(_)
BytesMoved(n) ==
    IF n = 0 THEN 0 ELSE BytesMoved(n - 1) + hist[n].ret
C39_NoLostOffsetUpdate ==
    (/\ \A c \in Clients : pc[c] = "idle"
     /\ OnlyOps({"read", "write"}))
    => current_file_offset = BytesMoved(Len(hist))

\* ---------------------------------------------------------------------
\* C40: read cache coherence. In every state between two client calls in
\* which the read ring is non-empty and not marked stale, the read worker's
\* fill offset is the logical offset plus the ring's size, and the ring
\* holds the backing-store bytes of the range that starts at the logical
\* offset; after any sequence of reads, writes, seeks and worker fills.
CachedRange ==
    SubSeq(store.data, current_file_offset + 1,
           current_file_offset + read_buffer.size)
C40_ReadCacheCoherence ==
    (/\ read_buffer_enabled
     /\ \A c \in Clients : pc[c] \in {"idle", "off"}
     /\ ~StoreFailed
     /\ ~empty(read_buffer) /\ ~read_buffer_stale)
    => /\ current_pos_in_storage = current_file_offset + read_buffer.size
       /\ current_file_offset + read_buffer.size <= Len(store.data)
       /\ RingContents(read_buffer) = CachedRange

====
